---- MODULE Spec2Model ----
(***************************************************************************)
(* ICS02 create-client handler: modules/src/ics02_client/handler/          *)
(* create_client.rs.  `process` validates a MsgCreateAnyClient against a   *)
(* ClientReader and returns a HandlerResult; `keep` persists the          *)
(* CreateClientResult through a ClientKeeper.                              *)
(***************************************************************************)
EXTENDS Naturals, Sequences, FiniteSets, Bags

VARIABLES
    ctype,      \* store: client id -> ClientType or None
    cstate,     \* store: client id -> ClientState or None
    ccons,      \* store: client id -> ConsensusState or None
    pending,    \* results returned by process, owned by the caller, not yet kept
    last,       \* record of the last handler call (process or keep) and its return
    ref         \* at most one earlier process call against the current store, kept for comparison

vars == <<ctype, cstate, ccons, pending, last, ref>>

\* ---------------------------------------------------------------- bounds
\* how many transition results the caller may hold between process and keep
MaxPending == 2

\* ---------------------------------------------------------------- values
None == "None"

ClientIds == {"mockclient", "tendermint"}
ClientTypes == {"Tendermint", "Mock"}
ClientStates == {"MockClientState(42)", "MockClientState(0)"}
ConsensusStates == {"MockConsensusState(42)", "MockConsensusState(0)"}
\* errors a store operation of the keeper may return
StoreErrors == {"StoreErrorA", "StoreErrorB"}

MsgCreateAnyClient ==
    [client_id : ClientIds, client_type : ClientTypes,
     client_state : ClientStates, consensus_state : ConsensusStates]

CreateClientResult ==
    [client_id : ClientIds, client_type : ClientTypes,
     client_state : ClientStates, consensus_state : ConsensusStates]

\* ---------------------------------------------------------------- Result / Option
Ok(v) == [tag |-> "Ok", val |-> v]
Err(e) == [tag |-> "Err", val |-> e]
is_some(o) == o # None

\* Kind::ClientAlreadyExists(client_id).into()
ClientAlreadyExists(client_id) ==
    [kind |-> "ClientAlreadyExists", client_id |-> client_id]

\* ClientEvent::ClientCreated(client_id)
ClientCreated(client_id) ==
    [event |-> "ClientCreated", client_id |-> client_id]

\* ---------------------------------------------------------------- HandlerOutput builder
builder == [log |-> <<>>, events |-> <<>>]
log(output, entry) == [output EXCEPT !.log = Append(@, entry)]
emit(output, event) == [output EXCEPT !.events = Append(@, event)]
with_result(output, result) ==
    [result |-> result, log |-> output.log, events |-> output.events]

\* ---------------------------------------------------------------- ClientReader
\* a reader is a snapshot of the store
Reader(t, s, c) == [ctype |-> t, cstate |-> s, ccons |-> c]
client_type(ctx, client_id) == ctx.ctype[client_id]
client_state(ctx, client_id) == ctx.cstate[client_id]
consensus_state(ctx, client_id) == ctx.ccons[client_id]

\* ---------------------------------------------------------------- process
\* process without the client-type check of lines 40-42
process_NoTypeCheck(ctx, msg) ==
    LET client_id == msg.client_id IN
    IF is_some(client_state(ctx, client_id))
    THEN Err(ClientAlreadyExists(client_id))
    ELSE Ok(with_result(
            emit(log(log(builder, "success: no client state found"),
                     "success: no client type found"),
                 ClientCreated(client_id)),
            [client_id |-> client_id,
             client_type |-> msg.client_type,
             client_state |-> msg.client_state,
             consensus_state |-> msg.consensus_state]))

\* process with the two log entries of lines 38 and 44 exchanged
process_LogsExchanged(ctx, msg) ==
    LET client_id == msg.client_id IN
    IF is_some(client_state(ctx, client_id)) \/ is_some(client_type(ctx, client_id))
    THEN Err(ClientAlreadyExists(client_id))
    ELSE Ok(with_result(
            emit(log(log(builder, "success: no client type found"),
                     "success: no client state found"),
                 ClientCreated(client_id)),
            [client_id |-> client_id,
             client_type |-> msg.client_type,
             client_state |-> msg.client_state,
             consensus_state |-> msg.consensus_state]))

\* process whose second failure (line 41) hands out the log accumulated so far
process_ErrWithLog(ctx, msg) ==
    LET client_id == msg.client_id IN
    IF is_some(client_state(ctx, client_id))
    THEN Err(ClientAlreadyExists(client_id))
    ELSE IF is_some(client_type(ctx, client_id))
    THEN Err([kind |-> "ClientAlreadyExists", client_id |-> client_id,
              log |-> log(builder, "success: no client state found").log])
    ELSE Ok(with_result(
            emit(log(log(builder, "success: no client state found"),
                     "success: no client type found"),
                 ClientCreated(client_id)),
            [client_id |-> client_id,
             client_type |-> msg.client_type,
             client_state |-> msg.client_state,
             consensus_state |-> msg.consensus_state]))

\* process that goes on with the builder of the call before it instead of the
\* fresh one of line 25
process_StaleBuilder(ctx, msg) ==
    LET client_id == msg.client_id
        output0 == IF last.op = "process" /\ last.ret.tag = "Ok"
                   THEN [log |-> last.ret.val.log, events |-> last.ret.val.events]
                   ELSE builder
    IN
    IF is_some(client_state(ctx, client_id)) \/ is_some(client_type(ctx, client_id))
    THEN Err(ClientAlreadyExists(client_id))
    ELSE Ok(with_result(
            emit(log(log(output0, "success: no client state found"),
                     "success: no client type found"),
                 ClientCreated(client_id)),
            [client_id |-> client_id,
             client_type |-> msg.client_type,
             client_state |-> msg.client_state,
             consensus_state |-> msg.consensus_state]))

\* process without the two existence checks of lines 34-42
process_Unguarded(ctx, msg) ==
    LET client_id == msg.client_id IN
    Ok(with_result(
            emit(log(log(builder, "success: no client state found"),
                     "success: no client type found"),
                 ClientCreated(client_id)),
            [client_id |-> client_id,
             client_type |-> msg.client_type,
             client_state |-> msg.client_state,
             consensus_state |-> msg.consensus_state]))

\* process that fills the result's client type with a fixed tag instead of
\* the request's (line 50)
process_FixedType(ctx, msg) ==
    LET client_id == msg.client_id IN
    IF is_some(client_state(ctx, client_id)) \/ is_some(client_type(ctx, client_id))
    THEN Err(ClientAlreadyExists(client_id))
    ELSE Ok(with_result(
            emit(log(log(builder, "success: no client state found"),
                     "success: no client type found"),
                 ClientCreated(client_id)),
            [client_id |-> client_id,
             client_type |-> "Tendermint",
             client_state |-> msg.client_state,
             consensus_state |-> msg.consensus_state]))

process(ctx, msg) ==
    LET output0 == builder
        client_id == msg.client_id
        m_client_type == msg.client_type
        m_client_state == msg.client_state
        m_consensus_state == msg.consensus_state
    IN  IF is_some(client_state(ctx, client_id))
        THEN Err(ClientAlreadyExists(client_id))
        ELSE LET output1 == log(output0, "success: no client state found") IN
             IF is_some(client_type(ctx, client_id))
             THEN Err(ClientAlreadyExists(client_id))
             ELSE LET output2 == log(output1, "success: no client type found")
                      output3 == emit(output2, ClientCreated(client_id))
                  IN  Ok(with_result(output3,
                            [client_id |-> client_id,
                             client_type |-> m_client_type,
                             client_state |-> m_client_state,
                             consensus_state |-> m_consensus_state]))

\* ---------------------------------------------------------------- ClientKeeper
\* a keeper is the store plus the invocations made on it during one keep;
\* `outcome` is what the store answers: "ok" or one of StoreErrors
Keeper(t, s, c) == [ctype |-> t, cstate |-> s, ccons |-> c, calls |-> <<>>]

store_client_type(keeper, client_id, value, outcome) ==
    IF outcome = "ok"
    THEN [keeper |-> [keeper EXCEPT !.ctype[client_id] = value,
                                    !.calls = Append(@, [op |-> "store_client_type", ret |-> Ok("unit")])],
          ret |-> Ok("unit")]
    ELSE [keeper |-> [keeper EXCEPT !.calls = Append(@, [op |-> "store_client_type", ret |-> Err(outcome)])],
          ret |-> Err(outcome)]

store_client_state(keeper, client_id, value, outcome) ==
    IF outcome = "ok"
    THEN [keeper |-> [keeper EXCEPT !.cstate[client_id] = value,
                                    !.calls = Append(@, [op |-> "store_client_state", ret |-> Ok("unit")])],
          ret |-> Ok("unit")]
    ELSE [keeper |-> [keeper EXCEPT !.calls = Append(@, [op |-> "store_client_state", ret |-> Err(outcome)])],
          ret |-> Err(outcome)]

store_consensus_state(keeper, client_id, value, outcome) ==
    IF outcome = "ok"
    THEN [keeper |-> [keeper EXCEPT !.ccons[client_id] = value,
                                    !.calls = Append(@, [op |-> "store_consensus_state", ret |-> Ok("unit")])],
          ret |-> Ok("unit")]
    ELSE [keeper |-> [keeper EXCEPT !.calls = Append(@, [op |-> "store_consensus_state", ret |-> Err(outcome)])],
          ret |-> Err(outcome)]

\* ---------------------------------------------------------------- keep
\* keep without the store of the consensus state (line 62)
keep_NoConsensus(keeper, result, outcomes) ==
    LET r1 == store_client_type(keeper, result.client_id, result.client_type, outcomes[1]) IN
    IF r1.ret.tag = "Err" THEN [keeper |-> r1.keeper, ret |-> r1.ret] ELSE
    LET r2 == store_client_state(r1.keeper, result.client_id, result.client_state, outcomes[2]) IN
    IF r2.ret.tag = "Err" THEN [keeper |-> r2.keeper, ret |-> r2.ret] ELSE
    [keeper |-> r2.keeper, ret |-> Ok("unit")]

\* keep that drops the answer of store_client_type (line 60 without its `?`)
keep_TypeErrorIgnored(keeper, result, outcomes) ==
    LET r1 == store_client_type(keeper, result.client_id, result.client_type, outcomes[1]) IN
    LET r2 == store_client_state(r1.keeper, result.client_id, result.client_state, outcomes[2]) IN
    IF r2.ret.tag = "Err" THEN [keeper |-> r2.keeper, ret |-> r2.ret] ELSE
    LET r3 == store_consensus_state(r2.keeper, result.client_id, result.consensus_state, outcomes[3]) IN
    IF r3.ret.tag = "Err" THEN [keeper |-> r3.keeper, ret |-> r3.ret] ELSE
    [keeper |-> r3.keeper, ret |-> Ok("unit")]

\* keep with lines 60 and 61 exchanged: the client state is stored first
keep_StateFirst(keeper, result, outcomes) ==
    LET r1 == store_client_state(keeper, result.client_id, result.client_state, outcomes[1]) IN
    IF r1.ret.tag = "Err" THEN [keeper |-> r1.keeper, ret |-> r1.ret] ELSE
    LET r2 == store_client_type(r1.keeper, result.client_id, result.client_type, outcomes[2]) IN
    IF r2.ret.tag = "Err" THEN [keeper |-> r2.keeper, ret |-> r2.ret] ELSE
    LET r3 == store_consensus_state(r2.keeper, result.client_id, result.consensus_state, outcomes[3]) IN
    IF r3.ret.tag = "Err" THEN [keeper |-> r3.keeper, ret |-> r3.ret] ELSE
    [keeper |-> r3.keeper, ret |-> Ok("unit")]

\* keep that looks for the client first and stores nothing when a client type
\* is already there
keep_SkipsExisting(keeper, result, outcomes) ==
    IF is_some(keeper.ctype[result.client_id])
    THEN [keeper |-> keeper, ret |-> Ok("unit")]
    ELSE
    LET r1 == store_client_type(keeper, result.client_id, result.client_type, outcomes[1]) IN
    IF r1.ret.tag = "Err" THEN [keeper |-> r1.keeper, ret |-> r1.ret] ELSE
    LET r2 == store_client_state(r1.keeper, result.client_id, result.client_state, outcomes[2]) IN
    IF r2.ret.tag = "Err" THEN [keeper |-> r2.keeper, ret |-> r2.ret] ELSE
    LET r3 == store_consensus_state(r2.keeper, result.client_id, result.consensus_state, outcomes[3]) IN
    IF r3.ret.tag = "Err" THEN [keeper |-> r3.keeper, ret |-> r3.ret] ELSE
    [keeper |-> r3.keeper, ret |-> Ok("unit")]

\* keep that stores the consensus state under the id "mockclient" whatever
\* the id of the result (line 62 with another key)
keep_ConsensusElsewhere(keeper, result, outcomes) ==
    LET r1 == store_client_type(keeper, result.client_id, result.client_type, outcomes[1]) IN
    IF r1.ret.tag = "Err" THEN [keeper |-> r1.keeper, ret |-> r1.ret] ELSE
    LET r2 == store_client_state(r1.keeper, result.client_id, result.client_state, outcomes[2]) IN
    IF r2.ret.tag = "Err" THEN [keeper |-> r2.keeper, ret |-> r2.ret] ELSE
    LET r3 == store_consensus_state(r2.keeper, "mockclient", result.consensus_state, outcomes[3]) IN
    IF r3.ret.tag = "Err" THEN [keeper |-> r3.keeper, ret |-> r3.ret] ELSE
    [keeper |-> r3.keeper, ret |-> Ok("unit")]

\* keep without the store of the client state (line 61)
keep_NoState(keeper, result, outcomes) ==
    LET r1 == store_client_type(keeper, result.client_id, result.client_type, outcomes[1]) IN
    IF r1.ret.tag = "Err" THEN [keeper |-> r1.keeper, ret |-> r1.ret] ELSE
    LET r3 == store_consensus_state(r1.keeper, result.client_id, result.consensus_state, outcomes[3]) IN
    IF r3.ret.tag = "Err" THEN [keeper |-> r3.keeper, ret |-> r3.ret] ELSE
    [keeper |-> r3.keeper, ret |-> Ok("unit")]

\* keep that looks for the client first and fails when a client type is
\* already there
keep_RejectsExisting(keeper, result, outcomes) ==
    IF is_some(keeper.ctype[result.client_id])
    THEN [keeper |-> keeper, ret |-> Err(ClientAlreadyExists(result.client_id))]
    ELSE
    LET r1 == store_client_type(keeper, result.client_id, result.client_type, outcomes[1]) IN
    IF r1.ret.tag = "Err" THEN [keeper |-> r1.keeper, ret |-> r1.ret] ELSE
    LET r2 == store_client_state(r1.keeper, result.client_id, result.client_state, outcomes[2]) IN
    IF r2.ret.tag = "Err" THEN [keeper |-> r2.keeper, ret |-> r2.ret] ELSE
    LET r3 == store_consensus_state(r2.keeper, result.client_id, result.consensus_state, outcomes[3]) IN
    IF r3.ret.tag = "Err" THEN [keeper |-> r3.keeper, ret |-> r3.ret] ELSE
    [keeper |-> r3.keeper, ret |-> Ok("unit")]

\* outcomes[i] is the answer of the i-th store operation, should it be invoked
keep(keeper, result, outcomes) ==
    LET r1 == store_client_type(keeper, result.client_id, result.client_type, outcomes[1]) IN
    IF r1.ret.tag = "Err" THEN [keeper |-> r1.keeper, ret |-> r1.ret] ELSE
    LET r2 == store_client_state(r1.keeper, result.client_id, result.client_state, outcomes[2]) IN
    IF r2.ret.tag = "Err" THEN [keeper |-> r2.keeper, ret |-> r2.ret] ELSE
    LET r3 == store_consensus_state(r2.keeper, result.client_id, result.consensus_state, outcomes[3]) IN
    IF r3.ret.tag = "Err" THEN [keeper |-> r3.keeper, ret |-> r3.ret] ELSE
    [keeper |-> r3.keeper, ret |-> Ok("unit")]

\* ---------------------------------------------------------------- state machine
NoClients == [id \in ClientIds |-> None]

\* any content a ClientReader may present (the tests build readers with only a
\* type, or only a state, under an id)
Snapshots ==
    [ctype : [ClientIds -> ClientTypes \cup {None}],
     cstate : [ClientIds -> ClientStates \cup {None}],
     ccons : [ClientIds -> ConsensusStates \cup {None}]]

Outcomes == {"ok"} \cup StoreErrors

\* the requests submitted: for each client id, the request of the tests and one
\* that differs from it in every field
Requests ==
    {m \in MsgCreateAnyClient :
        \/ /\ m.client_type = "Tendermint"
           /\ m.client_state = "MockClientState(42)"
           /\ m.consensus_state = "MockConsensusState(42)"
        \/ /\ m.client_type = "Mock"
           /\ m.client_state = "MockClientState(0)"
           /\ m.consensus_state = "MockConsensusState(0)"}

\* the answers of the three store operations during one keep: at most one of
\* them fails (an operation after a failing one is a different run of the store)
StoreAnswers ==
    {o \in [1..3 -> Outcomes] : Cardinality({i \in 1..3 : o[i] # "ok"}) <= 1}

\* the ledger at genesis: no client registered, nothing in flight
Init ==
    /\ ctype = NoClients
    /\ cstate = NoClients
    /\ ccons = NoClients
    /\ pending = EmptyBag
    /\ last = [op |-> "init"]
    /\ ref = {}

\* a reader over an arbitrary store
InitAny ==
    /\ \E snap \in Snapshots :
          /\ ctype = snap.ctype
          /\ cstate = snap.cstate
          /\ ccons = snap.ccons
    /\ pending = EmptyBag
    /\ last = [op |-> "init"]
    /\ ref = {}

\* a call of process that registers the request's client type in the store as
\* soon as both checks pass
Process_WritesType(msg, hold, remember) ==
    LET ret == process(Reader(ctype, cstate, ccons), msg) IN
    /\ hold => (ret.tag = "Ok" /\ BagCardinality(pending) < MaxPending)
    /\ last' = [op |-> "process", msg |-> msg, ret |-> ret]
    /\ pending' = IF hold THEN pending (+) SetToBag({ret.val.result}) ELSE pending
    /\ ref' = IF remember /\ last.op = "process"
              THEN {[msg |-> last.msg, ret |-> last.ret]}
              ELSE ref
    /\ ctype' = IF ret.tag = "Ok"
                THEN [ctype EXCEPT ![msg.client_id] = msg.client_type]
                ELSE ctype
    /\ UNCHANGED <<cstate, ccons>>

\* The caller runs process(ctx, msg) against the current store.  On success it
\* either holds the result for a later keep or drops it (simulation, dry run).
\* With `remember`, the call made just before this one is put aside in ref, so
\* that this call and the later ones can be compared with it.
Process(msg, hold, remember) ==
    LET ret == process(Reader(ctype, cstate, ccons), msg) IN
    /\ hold => (ret.tag = "Ok" /\ BagCardinality(pending) < MaxPending)
    /\ last' = [op |-> "process", msg |-> msg, ret |-> ret]
    /\ pending' = IF hold THEN pending (+) SetToBag({ret.val.result}) ELSE pending
    /\ ref' = IF remember /\ last.op = "process"
              THEN {[msg |-> last.msg, ret |-> last.ret]}
              ELSE ref
    /\ UNCHANGED <<ctype, cstate, ccons>>

\* The caller passes a held result to keep(keeper, result); the store answers
\* each operation with one of Outcomes.  The record of the call notes what the
\* store held under result.client_id before it.
Keep(result, outcomes) ==
    /\ BagIn(result, pending)
    /\ LET k == keep(Keeper(ctype, cstate, ccons), result, outcomes) IN
       /\ pending' = pending (-) SetToBag({result})
       /\ ctype' = k.keeper.ctype
       /\ cstate' = k.keeper.cstate
       /\ ccons' = k.keeper.ccons
       /\ last' = [op |-> "keep", result |-> result, calls |-> k.keeper.calls, ret |-> k.ret,
                   before |-> [client_type |-> ctype[result.client_id],
                               client_state |-> cstate[result.client_id],
                               consensus_state |-> ccons[result.client_id]]]
       /\ ref' = {}

\* the ledger: transitions in any interleaving, store operations may fail
Next ==
    \/ \E msg \in Requests, hold \in BOOLEAN : Process(msg, hold, FALSE)
    \/ \E result \in BagToSet(pending), outcomes \in StoreAnswers : Keep(result, outcomes)

Spec == Init /\ [][Next]_vars

\* repeated validation against one reader snapshot
NextProcess ==
    \E msg \in Requests, remember \in BOOLEAN : Process(msg, FALSE, remember)

SpecProcess == InitAny /\ [][NextProcess]_vars

AllOk == [i \in 1..3 |-> "ok"]

\* a serialized history: every process runs against the current store and its
\* keep, all store operations succeeding, is applied before the next process
NextSerial ==
    \/ \E msg \in MsgCreateAnyClient, hold \in BOOLEAN :
          /\ pending = EmptyBag
          /\ Process(msg, hold, FALSE)
    \/ \E result \in BagToSet(pending) : Keep(result, AllOk)

SpecSerial == Init /\ [][NextSerial]_vars

\* ---------------------------------------------------------------- properties
Exists(id) == is_some(cstate[id]) \/ is_some(ctype[id])
Absent(id) == ~is_some(cstate[id]) /\ ~is_some(ctype[id])
Errors == [kind : {"ClientAlreadyExists"}, client_id : ClientIds]
KeepOrder == <<"store_client_type", "store_client_state", "store_consensus_state">>
Invoked(op) == \E i \in 1..Len(last.calls) : last.calls[i].op = op
Failed(op) ==
    \E i \in 1..Len(last.calls) : last.calls[i].op = op /\ last.calls[i].ret.tag = "Err"

\* C1: process called for an id whose client state or client type (or both) is
\* in the store fails with ClientAlreadyExists carrying the request's client
\* id, and an error of process is never of another kind.
C1_CreateOnceGuard ==
    last.op = "process" =>
        /\ Exists(last.msg.client_id) =>
              last.ret = Err(ClientAlreadyExists(last.msg.client_id))
        /\ last.ret.tag = "Err" => last.ret.val.kind = "ClientAlreadyExists"

\* a failed process for an id with only a client state in the store
C1_Witness ==
    /\ last.op = "process"
    /\ is_some(cstate[last.msg.client_id])
    /\ ~is_some(ctype[last.msg.client_id])
    /\ last.ret = Err(ClientAlreadyExists(last.msg.client_id))

\* C2: process called for an id with neither client state nor client type in
\* the store succeeds with the log "success: no client state found",
\* "success: no client type found", in that order, and the single event
\* ClientCreated(client_id) of the request's id.
C2_FreshSuccess ==
    (last.op = "process" /\ Absent(last.msg.client_id)) =>
        /\ last.ret.tag = "Ok"
        /\ last.ret.val.log =
              <<"success: no client state found", "success: no client type found">>
        /\ last.ret.val.events = <<ClientCreated(last.msg.client_id)>>

\* a successful process for the id "tendermint", absent from a store that
\* holds the other id
C2_Witness ==
    /\ last.op = "process"
    /\ last.msg.client_id = "tendermint"
    /\ Absent("tendermint")
    /\ Exists("mockclient")
    /\ last.ret.tag = "Ok"

\* C3: after keep(result) returned Ok, the reader over the store returns for
\* result.client_id the client type, client state and consensus state of
\* result.
C3_CommitCorrectness ==
    (last.op = "keep" /\ last.ret.tag = "Ok") =>
        LET ctx == Reader(ctype, cstate, ccons)
            id == last.result.client_id
        IN  /\ client_type(ctx, id) = last.result.client_type
            /\ client_state(ctx, id) = last.result.client_state
            /\ consensus_state(ctx, id) = last.result.consensus_state

\* a keep that succeeded
C3_Witness ==
    /\ last.op = "keep"
    /\ last.ret.tag = "Ok"
    /\ Len(last.calls) = 3
    /\ is_some(ccons[last.result.client_id])

\* C4: a call of process leaves the client type, client state and consensus
\* state of every id as they were, and a call that repeats the request of a
\* failed call right after it returns the same error.
C4_NoMutationOnValidate ==
    [][last'.op = "process" =>
          /\ ctype' = ctype
          /\ cstate' = cstate
          /\ ccons' = ccons
          /\ (last.op = "process" /\ last.ret.tag = "Err" /\ last'.msg = last.msg) =>
                last'.ret = last.ret]_vars

\* a failed process repeated with the same request, over a store that holds a
\* consensus state
C4_Witness ==
    /\ last.op = "process"
    /\ last.ret.tag = "Err"
    /\ \E r \in ref : r.msg = last.msg /\ r.ret.tag = "Err"
    /\ \E id \in ClientIds : is_some(ccons[id])

\* C5: keep stops at the first store operation that fails: after a failed
\* store_client_type neither other operation was invoked, after a failed
\* store_client_state store_consensus_state was not invoked; keep returns the
\* error of the failing operation, invokes no operation twice, and what the
\* operations before the failing one stored stays in the store.
C5_KeepStopsAtFirstFailure ==
    last.op = "keep" =>
        LET calls == last.calls
            id == last.result.client_id
        IN  /\ Failed("store_client_type") =>
                  ~Invoked("store_client_state") /\ ~Invoked("store_consensus_state")
            /\ Failed("store_client_state") => ~Invoked("store_consensus_state")
            /\ \A i \in 1..Len(calls) :
                  calls[i].ret.tag = "Err" => (i = Len(calls) /\ last.ret = calls[i].ret)
            /\ last.ret.tag = "Err" =>
                  (Len(calls) > 0 /\ calls[Len(calls)].ret = last.ret)
            /\ \A i, j \in 1..Len(calls) : calls[i].op = calls[j].op => i = j
            /\ \A i \in 1..Len(calls) :
                  calls[i].ret.tag = "Ok" =>
                      /\ calls[i].op = "store_client_type" =>
                            ctype[id] = last.result.client_type
                      /\ calls[i].op = "store_client_state" =>
                            cstate[id] = last.result.client_state
                      /\ calls[i].op = "store_consensus_state" =>
                            ccons[id] = last.result.consensus_state

\* a keep that failed at store_client_state, the client type it stored before
\* still in the store
C5_Witness ==
    /\ last.op = "keep"
    /\ Failed("store_client_state")
    /\ last.ret = Err("StoreErrorB")
    /\ ctype[last.result.client_id] = last.result.client_type
    /\ ~is_some(cstate[last.result.client_id])

\* C6: the store operations keep invokes are, in this order, store_client_type,
\* store_client_state, store_consensus_state: the client state is never
\* stored before the client type, nor the consensus state before the client
\* state.
C6_KeepWriteOrder ==
    last.op = "keep" =>
        /\ Len(last.calls) \in 1..3
        /\ \A i \in 1..Len(last.calls) : last.calls[i].op = KeepOrder[i]

\* a keep that invoked all three store operations, the last one failing
C6_Witness ==
    /\ last.op = "keep"
    /\ Len(last.calls) = 3
    /\ Failed("store_consensus_state")

\* C7: a failed process returns the error alone: a value of Errors, with no
\* log, event or result beside it, also when the client state is absent and
\* the client type present.
C7_FailureOutput ==
    (last.op = "process" /\ last.ret.tag = "Err") =>
        /\ DOMAIN last.ret = {"tag", "val"}
        /\ last.ret.val \in Errors
        /\ DOMAIN last.ret.val = {"kind", "client_id"}

\* a failed process for an id with a client type and no client state
C7_Witness ==
    /\ last.op = "process"
    /\ last.ret.tag = "Err"
    /\ ~is_some(cstate[last.msg.client_id])
    /\ is_some(ctype[last.msg.client_id])

Committed(id) == is_some(ctype[id]) /\ is_some(cstate[id]) /\ is_some(ccons[id])

C9_CreateOnceSerialized ==
    [][\A id \in ClientIds :
          Committed(id) =>
              /\ ctype'[id] = ctype[id]
              /\ cstate'[id] = cstate[id]
              /\ (last'.op = "process" /\ last'.msg.client_id = id) =>
                    last'.ret = Err(ClientAlreadyExists(id))]_vars

\* a process for a committed id, asking for another client type, that failed
C9_Witness ==
    /\ last.op = "process"
    /\ Committed(last.msg.client_id)
    /\ last.msg.client_type # ctype[last.msg.client_id]
    /\ last.ret = Err(ClientAlreadyExists(last.msg.client_id))

\* C10: the result of a successful process carries the request's client_id,
\* client_type, client_state and consensus_state, and the ClientCreated event
\* carries result.client_id.
C10_ResultPassThrough ==
    (last.op = "process" /\ last.ret.tag = "Ok") =>
        /\ last.ret.val.result.client_id = last.msg.client_id
        /\ last.ret.val.result.client_type = last.msg.client_type
        /\ last.ret.val.result.client_state = last.msg.client_state
        /\ last.ret.val.result.consensus_state = last.msg.consensus_state
        /\ DOMAIN last.ret.val.result =
              {"client_id", "client_type", "client_state", "consensus_state"}
        /\ \A i \in 1..Len(last.ret.val.events) :
              /\ last.ret.val.events[i].event = "ClientCreated"
              /\ last.ret.val.events[i].client_id = last.ret.val.result.client_id

\* a successful process of a request of client type Mock, its result held
C10_Witness ==
    /\ last.op = "process"
    /\ last.ret.tag = "Ok"
    /\ last.msg.client_type = "Mock"
    /\ BagIn(last.ret.val.result, pending)

Held(id) == \E r \in BagToSet(pending) : r.client_id = id

\* C11: keep does not look whether the client exists.  A process for an absent
\* id succeeds also while a result for the same id is held, and a keep whose
\* store operations all succeed returns Ok and leaves the client type, client
\* state and consensus state of its result in the store also when the id was
\* already there: the second keep overwrites what the first one stored.
C11_TimeOfCheckGap ==
    [][/\ (/\ last'.op = "process"
           /\ Absent(last'.msg.client_id)
           /\ Held(last'.msg.client_id)) => last'.ret.tag = "Ok"
       /\ (/\ last'.op = "keep"
           /\ Exists(last'.result.client_id)
           /\ \A i \in 1..Len(last'.calls) : last'.calls[i].ret.tag = "Ok") =>
              /\ last'.ret = Ok("unit")
              /\ ctype'[last'.result.client_id] = last'.result.client_type
              /\ cstate'[last'.result.client_id] = last'.result.client_state
              /\ ccons'[last'.result.client_id] = last'.result.consensus_state]_vars

\* a successful keep over an id that held another client type, client state
\* and consensus state, all three now those of the result
C11_Witness ==
    /\ last.op = "keep"
    /\ last.ret = Ok("unit")
    /\ is_some(last.before.client_type)
    /\ is_some(last.before.client_state)
    /\ is_some(last.before.consensus_state)
    /\ last.before.client_type # last.result.client_type
    /\ last.before.client_state # last.result.client_state
    /\ last.before.consensus_state # last.result.consensus_state
    /\ ctype[last.result.client_id] = last.result.client_type
    /\ cstate[last.result.client_id] = last.result.client_state
    /\ ccons[last.result.client_id] = last.result.consensus_state

\* C12: a keep, successful or failed, leaves the client type, client state and
\* consensus state of every id other than result.client_id as they were.
C12_KeepWritesOnlyItsId ==
    [][last'.op = "keep" =>
          \A id \in ClientIds \ {last'.result.client_id} :
              /\ ctype'[id] = ctype[id]
              /\ cstate'[id] = cstate[id]
              /\ ccons'[id] = ccons[id]]_vars

\* a successful keep for the id "tendermint" beside a committed "mockclient"
\* whose three values all differ from the result's
C12_Witness ==
    /\ last.op = "keep"
    /\ last.ret = Ok("unit")
    /\ last.result.client_id = "tendermint"
    /\ Committed("mockclient")
    /\ ctype["mockclient"] # last.result.client_type
    /\ cstate["mockclient"] # last.result.client_state
    /\ ccons["mockclient"] # last.result.consensus_state

\* C13: in a serialized history from the empty store in which every store
\* operation succeeds, an id has a client type iff it has a client state, and
\* then it has a consensus state too; no id has one without the other.
C13_TypeStateCoPresence ==
    \A id \in ClientIds :
        /\ is_some(ctype[id]) <=> is_some(cstate[id])
        /\ is_some(ctype[id]) => is_some(ccons[id])
        /\ is_some(ccons[id]) => is_some(ctype[id])

\* after a keep, one id with all three values beside one with none
C13_Witness ==
    /\ last.op = "keep"
    /\ \E id \in ClientIds : Committed(id)
    /\ \E id \in ClientIds :
          Absent(id) /\ ~is_some(ccons[id])

\* C14: a keep that fails at store_client_state or store_consensus_state
\* leaves the client type it stored.  While an id has a client type but lacks
\* a client state or a consensus state, the client type stays, every process
\* for the id fails with ClientAlreadyExists and yields no result, and, no
\* result for the id being held from before, nothing stored under the id
\* changes: the registration is not completed.
PartlyKept(id) ==
    is_some(ctype[id]) /\ (~is_some(cstate[id]) \/ ~is_some(ccons[id]))

C15_KeepIdempotent ==
    [][(/\ last.op = "keep"
        /\ last.ret.tag = "Ok"
        /\ last'.op = "keep"
        /\ last'.result = last.result
        /\ \A i \in 1..Len(last'.calls) : last'.calls[i].ret.tag = "Ok") =>
           /\ last'.ret = Ok("unit")
           /\ ctype' = ctype
           /\ cstate' = cstate
           /\ ccons' = ccons]_vars

\* a successful keep of a result whose three values the store already held
\* under its id
C15_Witness ==
    /\ last.op = "keep"
    /\ last.ret = Ok("unit")
    /\ Len(last.calls) = 3
    /\ last.before.client_type = last.result.client_type
    /\ last.before.client_state = last.result.client_state
    /\ last.before.consensus_state = last.result.consensus_state

====
